---- MODULE Spec2Model ----
(***************************************************************************)
(* State-machine model of contract DeNewsContent                           *)
(* (src/contracts/DeNewsToken.sol, lines 69-618): the moderation and       *)
(* governance engine.  Every external function is one atomic action; a    *)
(* failing require (a revert) leaves the state unchanged, so a reverting   *)
(* call is a call whose action is not enabled.                             *)
(***************************************************************************)
EXTENDS Integers, FiniteSets, Sequences, TLC

\* ------------------------------------------------------------------ bounds
\* Callers are the addresses 1..NumAddr; 0 is address(0).
NumAddr == 2
\* At most MaxPosts successful createPost calls are explored.
MaxPosts == 1
\* At most MaxProposals proposal ids are allocated.
MaxProposals == 2
\* block.timestamp at deployment (in days) on a chain whose clock is past 0.
GenesisTime == 1
\* block.timestamp ranges over GenesisTime..MaxTime (in days).
MaxTime == 7
\* The governance specification explores block.timestamp up to MaxGovTime.
MaxGovTime == 4
\* voteWeight arguments range over 0..MaxWeight.
MaxWeight == 2
\* Stand-in for type(uint256).max: checked arithmetic reverts above it.
UintMax == 3
\* newValue arguments of UpdateParameters payloads range over 0..MaxParam.
MaxParam == 1
\* At most MaxComments successful addComment calls are explored.
MaxComments == 2
\* At most MaxReports flagContent calls of the read-model are explored.
MaxReports == 3

\* ------------------------------------------------------- program constants
InitFlagThreshold == 3
InitVoteDuration == 3
InitQuorumPercentage == 10

Addr == 1..NumAddr
ZeroAddr == 0
Deployer == 1
PostIds == 0..MaxPosts
ProposalIds == 0..MaxProposals
Weights == 0..MaxWeight

DEFAULT_ADMIN_ROLE == "DEFAULT_ADMIN_ROLE"
ADMIN_ROLE == "ADMIN_ROLE"
MODERATOR_ROLE == "MODERATOR_ROLE"

\* enum ModerationStatus { None, Flagged, UnderVote, Removed }
ModerationStatus == {"None", "Flagged", "UnderVote", "Removed"}
\* enum ProposalStatus { Active, Passed, Rejected, Executed }
ProposalStatus == {"Active", "Passed", "Rejected", "Executed"}
\* enum ProposalType { RemoveContent, UpdateParameters, GrantRole, RevokeRole }
ProposalType == {"RemoveContent", "UpdateParameters", "GrantRole", "RevokeRole"}

VARIABLES
    now,               \* block.timestamp
    registrationTime,  \* users[a].registrationTime
    roles,             \* AccessControl role relation: set of <<role, account>>
    postIdCounter,     \* _postIdCounter
    posts,             \* posts[id]: author, moderationStatus
    proposalIdCounter, \* _proposalIdCounter
    proposals,         \* proposals[id]
    hasVoted,          \* hasVoted[id][a], as the set of <<id, a>> that are true
    moderationVotes,   \* moderationVotes[postId]
    params,            \* flagThreshold, voteDuration, quorumPercentage
    voteStarted,       \* history: postIds for which startModerationVote succeeded
    ballots,           \* history: one record per successful castModerationVote
    executedEver,      \* history: <<function, argument>> of every successful execute
                       \* call on a proposal or ModerationVote the contract had stored
    executedSince,     \* the same, since the record under that argument was last stored
    profiles,          \* users[a]: username, userType, isVerified
    registered,        \* history: addresses for which registerUser succeeded
    commentIdCounter,  \* _commentIdCounter
    postComments,      \* postComments[postId]: the sequence of Comment structs
    postLikes,         \* postLikes[postId][a], as the set of <<postId, a>> that are true
    flagged_content,   \* read-model table flagged_content: the sequence of its rows
    content_reports,   \* read-model table content_reports: the sequence of its rows
    flagCall,          \* the flagContent call of each user of src/lib/db.ts in flight
    postIdUnique,      \* whether the schema has a unique index on flagged_content.post_id
    upload             \* the uploadToDecentralizedStorage call in flight, and web3StorageClient

vars == <<now, registrationTime, roles, postIdCounter, posts, proposalIdCounter,
          proposals, hasVoted, moderationVotes, params, voteStarted, ballots,
          executedEver, executedSince, profiles, registered,
          commentIdCounter, postComments, postLikes,
          flagged_content, content_reports, flagCall, postIdUnique, upload>>

\* The storage of contract DeNewsContent and the histories kept beside it
contractVars == <<now, registrationTime, roles, postIdCounter, posts, proposalIdCounter,
                  proposals, hasVoted, moderationVotes, params, voteStarted, ballots,
                  executedEver, executedSince, profiles, registered,
                  commentIdCounter, postComments, postLikes>>

\* The read-model database of src/lib/db.ts and the storage upload
offChainVars == <<flagged_content, content_reports, flagCall, postIdUnique, upload>>

\* users[a] beside registrationTime, and the registration history
userVars == <<profiles, registered>>

\* comments and likes
contentVars == <<commentIdCounter, postComments, postLikes>>

\* ------------------------------------------------- zero values of mappings
DefaultPost ==
    [id |-> 0, author |-> ZeroAddr, likes |-> 0, comments |-> 0,
     moderationStatus |-> "None"]

DefaultProfile == [username |-> "", userType |-> "Individual", isVerified |-> FALSE]

DefaultProposal ==
    [id |-> 0, proposer |-> ZeroAddr, proposalType |-> "RemoveContent",
     data |-> <<>>, startTime |-> 0, endTime |-> 0,
     forVotes |-> 0, againstVotes |-> 0, status |-> "Active"]

DefaultModerationVote ==
    [proposalId |-> 0, postId |-> 0, startTime |-> 0, endTime |-> 0,
     forRemovalVotes |-> 0, againstRemovalVotes |-> 0, executed |-> FALSE]

InitStorage ==
    /\ registrationTime = [a \in Addr |-> 0]
    /\ roles = {<<DEFAULT_ADMIN_ROLE, Deployer>>, <<ADMIN_ROLE, Deployer>>}
    /\ postIdCounter = 0
    /\ posts = [p \in PostIds |-> DefaultPost]
    /\ proposalIdCounter = 0
    /\ proposals = [i \in ProposalIds |-> DefaultProposal]
    /\ hasVoted = {}
    /\ moderationVotes = [p \in PostIds |-> DefaultModerationVote]
    /\ params = [flagThreshold |-> InitFlagThreshold,
                 voteDuration |-> InitVoteDuration,
                 quorumPercentage |-> InitQuorumPercentage]
    /\ voteStarted = {}
    /\ ballots = {}
    /\ executedEver = {}
    /\ executedSince = {}
    /\ profiles = [a \in Addr |-> DefaultProfile]
    /\ registered = {}
    /\ commentIdCounter = 0
    /\ postComments = [p \in PostIds |-> <<>>]
    /\ postLikes = {}

\* A flagContent call of src/lib/db.ts that has not started
IdleFlagCall == [pc |-> "idle", postId |-> 0, existingFlag |-> 0]

\* An uploadToDecentralizedStorage call that has not started
IdleUpload(client) ==
    [web3StorageClient |-> client, pc |-> "idle", ipfsAdded |-> FALSE,
     puts |-> 0, result |-> ""]

\* Empty tables, no call in flight; schema and environment as given
OffChainStart(unique, client) ==
    /\ flagged_content = <<>>
    /\ content_reports = <<>>
    /\ flagCall = [u \in Addr |-> IdleFlagCall]
    /\ postIdUnique = unique
    /\ upload = IdleUpload(client)

InitOffChain == OffChainStart(FALSE, FALSE)

Init == now = GenesisTime /\ InitStorage /\ InitOffChain

\* ----------------------------------------------------------------- helpers
\* Faulty variant of hasRole: every account passes the check
hasRole_Anyone(role, account) == TRUE

\* AccessControl.hasRole, read by the onlyRole modifier
hasRole(role, account) == <<role, account>> \in roles

\* Faulty variant of IsRegistered: every caller passes the check
IsRegistered_Anyone(a) == TRUE

\* users[a].registrationTime > 0
IsRegistered(a) == registrationTime[a] > 0

\* posts[postId].author != address(0)
PostExists(postId) == posts[postId].author # ZeroAddr

\* proposals[proposalId].id == proposalId
ProposalExists(proposalId) == proposals[proposalId].id = proposalId

\* vote.postId == postId
VoteExists(postId) == moderationVotes[postId].postId = postId

\* abi.encode(postId) / abi.decode(data, (uint256)): one 32-byte word
EncodeUint(x) == <<x>>
CanDecodeUint(data) == Len(data) >= 1 /\ data[1] \in Nat
DecodeUint(data) == data[1]

\* abi.encode(a, b) / abi.decode(data, (T1, T2)): two words
EncodePair(a, b) == <<a, b>>
CanDecodePair(data) == Len(data) >= 2
DecodeFirst(data) == data[1]
DecodeSecond(data) == data[2]

\* Solidity 0.8 checked addition: the call reverts when the sum overflows
AddOk(x, y) == x + y <= UintMax

\* quorumReached = (forVotes + againstVotes) > 0
QuorumReached(forVotes, againstVotes) == (forVotes + againstVotes) > 0

\* Faulty variant of VotePassed: a tie with weight passes
VotePassed_TiePasses(forVotes, againstVotes) ==
    QuorumReached(forVotes, againstVotes) /\ forVotes >= againstVotes

\* quorumReached && proposal.forVotes > proposal.againstVotes
VotePassed(forVotes, againstVotes) ==
    QuorumReached(forVotes, againstVotes) /\ forVotes > againstVotes

\* Faulty variant of Increment: the counter is not advanced
Increment_Stuck(counter) == counter

\* Counters.increment
Increment(counter) == counter + 1

\* enum UserType { Individual, Journalist, Organization }
UserType == {"Individual", "Journalist", "Organization"}

\* ----------------------------------------------------------------- actions
\* Faulty variant of WithRole: the role is not granted
WithRole_NotGranted(role, account) == roles

\* _grantRole(role, account)
WithRole(role, account) == roles \cup {<<role, account>>}

\* _revokeRole(role, account)
WithoutRole(role, account) == roles \ {<<role, account>>}

\* AccessControl.grantRole, inherited: only the role's admin (DEFAULT_ADMIN_ROLE)
grantRole(sender, role, account) ==
    /\ hasRole(DEFAULT_ADMIN_ROLE, sender)
    /\ roles' = WithRole(role, account)
    /\ UNCHANGED <<now, registrationTime, postIdCounter, posts, proposalIdCounter,
                   proposals, hasVoted, moderationVotes, params, voteStarted, ballots,
                   executedEver, executedSince,
                   userVars, contentVars,
                   offChainVars>>

\* AccessControl.revokeRole, inherited
revokeRole(sender, role, account) ==
    /\ hasRole(DEFAULT_ADMIN_ROLE, sender)
    /\ roles' = WithoutRole(role, account)
    /\ UNCHANGED <<now, registrationTime, postIdCounter, posts, proposalIdCounter,
                   proposals, hasVoted, moderationVotes, params, voteStarted, ballots,
                   executedEver, executedSince,
                   userVars, contentVars,
                   offChainVars>>

registerUser(sender, username, userType) ==
    /\ registrationTime[sender] = 0
    /\ registrationTime' = [registrationTime EXCEPT ![sender] = now]
    /\ profiles' = [profiles EXCEPT ![sender] =
                       [username |-> username, userType |-> userType,
                        isVerified |-> FALSE]]
    /\ registered' = registered \cup {sender}
    /\ UNCHANGED <<now, roles, postIdCounter, posts, proposalIdCounter,
                   proposals, hasVoted, moderationVotes, params, voteStarted, ballots,
                   executedEver, executedSince,
                   contentVars,
                   offChainVars>>

createPost(sender) ==
    /\ IsRegistered(sender)
    /\ postIdCounter < MaxPosts
    /\ posts' = [posts EXCEPT ![postIdCounter] =
                    [id |-> postIdCounter, author |-> sender, likes |-> 0,
                     comments |-> 0, moderationStatus |-> "None"]]
    /\ postIdCounter' = Increment(postIdCounter)
    /\ UNCHANGED <<now, registrationTime, roles, proposalIdCounter,
                   proposals, hasVoted, moderationVotes, params, voteStarted, ballots,
                   executedEver, executedSince,
                   userVars, contentVars,
                   offChainVars>>

\* verifyUser: a Moderator marks a registered, unverified user as verified
verifyUser(sender, user) ==
    /\ hasRole(MODERATOR_ROLE, sender)
    /\ registrationTime[user] > 0
    /\ ~profiles[user].isVerified
    /\ profiles' = [profiles EXCEPT ![user].isVerified = TRUE]
    /\ UNCHANGED <<now, registrationTime, roles, postIdCounter, posts,
                   proposalIdCounter, proposals, hasVoted, moderationVotes, params,
                   voteStarted, ballots, executedEver, executedSince, registered,
                   contentVars,
                   offChainVars>>

\* posts[postId].likes += 1
Liked(post) == [post EXCEPT !.likes = @ + 1]

\* Faulty variant of Unliked: the count is left as it was
Unliked_NotCounted(post) == post

\* posts[postId].likes -= 1
Unliked(post) == [post EXCEPT !.likes = @ - 1]

likePost(sender, postId) ==
    /\ PostExists(postId)
    /\ <<postId, sender>> \notin postLikes
    /\ AddOk(posts[postId].likes, 1)
    /\ postLikes' = postLikes \cup {<<postId, sender>>}
    /\ posts' = [posts EXCEPT ![postId] = Liked(posts[postId])]
    /\ UNCHANGED <<now, registrationTime, roles, postIdCounter, proposalIdCounter,
                   proposals, hasVoted, moderationVotes, params, voteStarted, ballots,
                   executedEver, executedSince, userVars, commentIdCounter,
                   postComments,
                   offChainVars>>

unlikePost(sender, postId) ==
    /\ PostExists(postId)
    /\ <<postId, sender>> \in postLikes
    /\ posts[postId].likes >= 1
    /\ postLikes' = postLikes \ {<<postId, sender>>}
    /\ posts' = [posts EXCEPT ![postId] = Unliked(posts[postId])]
    /\ UNCHANGED <<now, registrationTime, roles, postIdCounter, proposalIdCounter,
                   proposals, hasVoted, moderationVotes, params, voteStarted, ballots,
                   executedEver, executedSince, userVars, commentIdCounter,
                   postComments,
                   offChainVars>>

\* Faulty variant of Commented: the count is left as it was
Commented_NotCounted(post) == post

\* posts[postId].comments += 1
Commented(post) == [post EXCEPT !.comments = @ + 1]

\* Comment({...}) of addComment (the content string is carried, not interpreted)
NewComment(commentId, postId, sender) ==
    [id |-> commentId, postId |-> postId, author |-> sender, timestamp |-> now,
     moderationStatus |-> "None"]

addComment(sender, postId) ==
    /\ PostExists(postId)
    /\ IsRegistered(sender)
    /\ commentIdCounter < MaxComments
    /\ AddOk(posts[postId].comments, 1)
    /\ commentIdCounter' = Increment(commentIdCounter)
    /\ postComments' = [postComments EXCEPT ![postId] =
                           Append(@, NewComment(commentIdCounter, postId, sender))]
    /\ posts' = [posts EXCEPT ![postId] = Commented(posts[postId])]
    /\ UNCHANGED <<now, registrationTime, roles, postIdCounter, proposalIdCounter,
                   proposals, hasVoted, moderationVotes, params, voteStarted, ballots,
                   executedEver, executedSince, userVars, postLikes,
                   offChainVars>>

\* posts[postId].moderationStatus = ModerationStatus.Flagged
Flag(post) == [post EXCEPT !.moderationStatus = "Flagged"]

\* Faulty variant of CanFlag: the post's status is not looked at
CanFlag_AnyStatus(sender, postId) ==
    /\ PostExists(postId)
    /\ IsRegistered(sender)

\* The requires of flagContent
CanFlag(sender, postId) ==
    /\ PostExists(postId)
    /\ IsRegistered(sender)
    /\ posts[postId].moderationStatus = "None"

flagContent(sender, postId) ==
    /\ CanFlag(sender, postId)
    /\ posts' = [posts EXCEPT ![postId] = Flag(posts[postId])]
    /\ UNCHANGED <<now, registrationTime, roles, postIdCounter, proposalIdCounter,
                   proposals, hasVoted, moderationVotes, params, voteStarted, ballots,
                   executedEver, executedSince,
                   userVars, contentVars,
                   offChainVars>>

\* The Proposal struct stored by startModerationVote and createProposal
NewProposal(proposalId, sender, proposalType, data) ==
    [id |-> proposalId, proposer |-> sender, proposalType |-> proposalType,
     data |-> data, startTime |-> now, endTime |-> now + params.voteDuration,
     forVotes |-> 0, againstVotes |-> 0, status |-> "Active"]

\* Faulty variant of NewModerationVote: the deployed voteDuration is used
NewModerationVote_DeployedDuration(proposalId, postId) ==
    [proposalId |-> proposalId, postId |-> postId, startTime |-> now,
     endTime |-> now + InitVoteDuration,
     forRemovalVotes |-> 0, againstRemovalVotes |-> 0, executed |-> FALSE]

\* The ModerationVote struct stored by startModerationVote
NewModerationVote(proposalId, postId) ==
    [proposalId |-> proposalId, postId |-> postId, startTime |-> now,
     endTime |-> now + params.voteDuration,
     forRemovalVotes |-> 0, againstRemovalVotes |-> 0, executed |-> FALSE]

startModerationVote(sender, postId) ==
    /\ hasRole(MODERATOR_ROLE, sender)
    /\ PostExists(postId)
    /\ posts[postId].moderationStatus = "Flagged"
    /\ proposalIdCounter < MaxProposals
    /\ proposals' = [proposals EXCEPT ![proposalIdCounter] =
           NewProposal(proposalIdCounter, sender, "RemoveContent", EncodeUint(postId))]
    /\ proposalIdCounter' = Increment(proposalIdCounter)
    /\ moderationVotes' = [moderationVotes EXCEPT ![postId] =
           NewModerationVote(proposalIdCounter, postId)]
    /\ posts' = [posts EXCEPT ![postId].moderationStatus = "UnderVote"]
    /\ voteStarted' = voteStarted \cup {postId}
    /\ executedSince' = executedSince \ {<<"executeProposal", proposalIdCounter>>,
                                          <<"executeModerationVote", postId>>}
    /\ UNCHANGED <<now, registrationTime, roles, postIdCounter, hasVoted, params, ballots,
                   executedEver,
                   userVars, contentVars,
                   offChainVars>>

createProposal(sender, proposalType, data) ==
    /\ IsRegistered(sender)
    /\ proposalIdCounter < MaxProposals
    /\ proposals' = [proposals EXCEPT ![proposalIdCounter] =
           NewProposal(proposalIdCounter, sender, proposalType, data)]
    /\ proposalIdCounter' = Increment(proposalIdCounter)
    /\ executedSince' = executedSince \ {<<"executeProposal", proposalIdCounter>>}
    /\ UNCHANGED <<now, registrationTime, roles, postIdCounter, posts, hasVoted,
                   moderationVotes, params, voteStarted, ballots,
                   executedEver,
                   userVars, contentVars,
                   offChainVars>>

\* Faulty variant of MarkVoted: the cast is not recorded
MarkVoted_NotRecorded(proposalId, sender) == hasVoted

\* hasVoted[proposalId][msg.sender] = true
MarkVoted(proposalId, sender) == hasVoted \cup {<<proposalId, sender>>}

\* proposals[proposalId].forVotes += voteWeight / .againstVotes += voteWeight
AddProposalWeight(proposal, support, voteWeight) ==
    IF support
    THEN [proposal EXCEPT !.forVotes = @ + voteWeight]
    ELSE [proposal EXCEPT !.againstVotes = @ + voteWeight]

\* moderationVotes[postId].forRemovalVotes += voteWeight / .againstRemovalVotes += ...
AddRemovalWeight(vote, support, voteWeight) ==
    IF support
    THEN [vote EXCEPT !.forRemovalVotes = @ + voteWeight]
    ELSE [vote EXCEPT !.againstRemovalVotes = @ + voteWeight]

\* Faulty variant of ResolvedStatus: a rejected proposal is left Active
ResolvedStatus_RejectedStaysActive(passed) == IF passed THEN "Executed" ELSE "Active"

\* proposal.status = ProposalStatus.Executed / ProposalStatus.Rejected
ResolvedStatus(passed) == IF passed THEN "Executed" ELSE "Rejected"

\* The requires of castModerationVote
\* Faulty variant of CanCast: the proposal need not be Active
CanCast_NotActive(sender, proposalId) ==
    /\ ProposalExists(proposalId)
    /\ now < proposals[proposalId].endTime
    /\ <<proposalId, sender>> \notin hasVoted
    /\ IsRegistered(sender)

\* Faulty variant of CanCast: the deadline is not looked at
CanCast_AfterDeadline(sender, proposalId) ==
    /\ ProposalExists(proposalId)
    /\ proposals[proposalId].status = "Active"
    /\ <<proposalId, sender>> \notin hasVoted
    /\ IsRegistered(sender)

\* The requires of castModerationVote
CanCast(sender, proposalId) ==
    /\ ProposalExists(proposalId)
    /\ proposals[proposalId].status = "Active"
    /\ now < proposals[proposalId].endTime
    /\ <<proposalId, sender>> \notin hasVoted
    /\ IsRegistered(sender)

castModerationVote(sender, proposalId, support, voteWeight) ==
    LET proposal == proposals[proposalId]
        tally == IF support THEN proposal.forVotes ELSE proposal.againstVotes
        nth == Cardinality({b \in ballots :
                   b.proposalId = proposalId /\ b.voter = sender}) + 1
    IN
    /\ CanCast(sender, proposalId)
    /\ hasVoted' = MarkVoted(proposalId, sender)
    /\ AddOk(tally, voteWeight)
    /\ proposals' = [proposals EXCEPT ![proposalId] =
                        AddProposalWeight(proposal, support, voteWeight)]
    /\ IF proposal.proposalType = "RemoveContent"
       THEN /\ CanDecodeUint(proposal.data)
            /\ LET postId == DecodeUint(proposal.data)
                   vote == moderationVotes[postId]
                   mirrored == IF support THEN vote.forRemovalVotes
                               ELSE vote.againstRemovalVotes
               IN /\ AddOk(mirrored, voteWeight)
                  /\ moderationVotes' = [moderationVotes EXCEPT ![postId] =
                         AddRemovalWeight(vote, support, voteWeight)]
       ELSE UNCHANGED moderationVotes
    /\ ballots' = ballots \cup {[proposalId |-> proposalId, voter |-> sender,
                                support |-> support, weight |-> voteWeight,
                                nth |-> nth]}
    /\ UNCHANGED <<now, registrationTime, roles, postIdCounter, posts,
                   proposalIdCounter, params, voteStarted,
                   executedEver, executedSince,
                   userVars, contentVars,
                   offChainVars>>

\* The requires of executeModerationVote (the tally addition is checked)
CanExecuteModerationVote(postId) ==
    LET vote == moderationVotes[postId]
        proposal == proposals[vote.proposalId]
    IN /\ VoteExists(postId)
       /\ ~vote.executed
       /\ now >= vote.endTime
       /\ AddOk(proposal.forVotes, proposal.againstVotes)

executeModerationVote(sender, postId) ==
    LET vote == moderationVotes[postId]
        proposal == proposals[vote.proposalId]
        removed == VotePassed(proposal.forVotes, proposal.againstVotes)
    IN
    /\ CanExecuteModerationVote(postId)
    /\ moderationVotes' = [moderationVotes EXCEPT ![postId].executed = TRUE]
    /\ posts' = [posts EXCEPT ![postId].moderationStatus =
                    IF removed THEN "Removed" ELSE "None"]
    /\ proposals' = [proposals EXCEPT ![vote.proposalId].status =
                        ResolvedStatus(removed)]
    /\ executedEver' = IF postId \in voteStarted
                       THEN executedEver \cup {<<"executeModerationVote", postId>>}
                       ELSE executedEver
    /\ executedSince' = executedSince \cup {<<"executeModerationVote", postId>>}
    /\ UNCHANGED <<now, registrationTime, roles, postIdCounter, proposalIdCounter,
                   hasVoted, params, voteStarted, ballots,
                   userVars, contentVars,
                   offChainVars>>

\* Faulty variant of CanExecuteProposal: the deadline is not required
CanExecuteProposal_NoDeadline(proposalId) ==
    LET proposal == proposals[proposalId]
    IN /\ ProposalExists(proposalId)
       /\ proposal.status = "Active"
       /\ AddOk(proposal.forVotes, proposal.againstVotes)

\* The requires of executeProposal (the tally addition is checked)
CanExecuteProposal(proposalId) ==
    LET proposal == proposals[proposalId]
    IN /\ ProposalExists(proposalId)
       /\ proposal.status = "Active"
       /\ now >= proposal.endTime
       /\ AddOk(proposal.forVotes, proposal.againstVotes)

\* Faulty variant of UpdatedParams: the name is not looked at
UpdatedParams_AnyName(paramName, newValue) ==
    [params EXCEPT !.flagThreshold = newValue]

\* The parameter assignment of a passing UpdateParameters proposal
UpdatedParams(paramName, newValue) ==
    IF paramName = "flagThreshold" THEN [params EXCEPT !.flagThreshold = newValue]
    ELSE IF paramName = "voteDuration" THEN [params EXCEPT !.voteDuration = newValue]
    ELSE IF paramName = "quorumPercentage"
         THEN [params EXCEPT !.quorumPercentage = newValue]
    ELSE params

executeProposal(sender, proposalId) ==
    LET proposal == proposals[proposalId]
        passed == VotePassed(proposal.forVotes, proposal.againstVotes)
    IN
    /\ CanExecuteProposal(proposalId)
    /\ IF passed /\ proposal.proposalType = "UpdateParameters"
       THEN /\ CanDecodePair(proposal.data)
            /\ params' = UpdatedParams(DecodeFirst(proposal.data),
                                       DecodeSecond(proposal.data))
       ELSE UNCHANGED params
    /\ IF passed /\ proposal.proposalType = "GrantRole"
       THEN /\ CanDecodePair(proposal.data)
            /\ roles' = WithRole(DecodeFirst(proposal.data),
                                 DecodeSecond(proposal.data))
       ELSE IF passed /\ proposal.proposalType = "RevokeRole"
       THEN /\ CanDecodePair(proposal.data)
            /\ roles' = WithoutRole(DecodeFirst(proposal.data),
                                    DecodeSecond(proposal.data))
       ELSE UNCHANGED roles
    /\ proposals' = [proposals EXCEPT ![proposalId].status = ResolvedStatus(passed)]
    /\ executedEver' = IF proposalId < proposalIdCounter
                       THEN executedEver \cup {<<"executeProposal", proposalId>>}
                       ELSE executedEver
    /\ executedSince' = executedSince \cup {<<"executeProposal", proposalId>>}
    /\ UNCHANGED <<now, registrationTime, postIdCounter, posts, proposalIdCounter,
                   hasVoted, moderationVotes, voteStarted, ballots,
                   userVars, contentVars,
                   offChainVars>>

\* block.timestamp advances between transactions, here by whole voting windows
TickStep == InitVoteDuration

Tick ==
    /\ now + TickStep <= MaxTime
    /\ now' = now + TickStep
    /\ UNCHANGED <<registrationTime, roles, postIdCounter, posts, proposalIdCounter,
                   proposals, hasVoted, moderationVotes, params, voteStarted, ballots,
                   executedEver, executedSince,
                   userVars, contentVars,
                   offChainVars>>

\* ------------------------------------------- read-model (src/lib/db.ts)
\* Every awaited query is one step; between two queries of a call the queries
\* of other calls may run.

\* The ids of the flagged_content rows of a post
RowsOfPost(postId) ==
    {k \in 1..Len(flagged_content) : flagged_content[k].post_id = postId}

\* flagContent, line 241: SELECT * FROM flagged_content WHERE post_id = $1.
\* Without ORDER BY, rows[0] is any of the matching rows.
FlagSelect(userId, postId) ==
    /\ flagCall[userId].pc = "idle"
    /\ Len(content_reports)
         + Cardinality({u \in Addr : flagCall[u].pc \notin {"idle", "returned", "thrown"}})
         < MaxReports
    /\ IF RowsOfPost(postId) # {}
       THEN \E k \in RowsOfPost(postId) :
                flagCall' = [flagCall EXCEPT ![userId] =
                    [pc |-> "insertReport", postId |-> postId, existingFlag |-> k]]
       ELSE flagCall' = [flagCall EXCEPT ![userId] =
                    [pc |-> "insertFlag", postId |-> postId, existingFlag |-> 0]]
    /\ UNCHANGED <<flagged_content, content_reports, postIdUnique, upload, contractVars>>

\* flagContent, lines 245-248: INSERT INTO content_reports for the existing flag
FlagInsertReport(userId) ==
    /\ flagCall[userId].pc = "insertReport"
    /\ content_reports' = Append(content_reports,
           [flagged_content_id |-> flagCall[userId].existingFlag, user_id |-> userId])
    /\ flagCall' = [flagCall EXCEPT ![userId].pc = "updateCount"]
    /\ UNCHANGED <<flagged_content, postIdUnique, upload, contractVars>>

\* flagContent, line 251: UPDATE flagged_content SET report_count = report_count + 1
FlagUpdateCount(userId) ==
    /\ flagCall[userId].pc = "updateCount"
    /\ flagged_content' = [flagged_content EXCEPT
           ![flagCall[userId].existingFlag].report_count = @ + 1]
    /\ flagCall' = [flagCall EXCEPT ![userId].pc = "returned"]
    /\ UNCHANGED <<content_reports, postIdUnique, upload, contractVars>>

\* flagContent, lines 256-259: INSERT INTO flagged_content ... report_count 1.
\* With a unique index on post_id a second row for the post is refused and
\* the call throws.
FlagInsertFlag(userId) ==
    /\ flagCall[userId].pc = "insertFlag"
    /\ IF postIdUnique /\ RowsOfPost(flagCall[userId].postId) # {}
       THEN /\ flagCall' = [flagCall EXCEPT ![userId].pc = "thrown"]
            /\ UNCHANGED flagged_content
       ELSE /\ flagged_content' = Append(flagged_content,
                   [id |-> Len(flagged_content) + 1,
                    post_id |-> flagCall[userId].postId,
                    status |-> "flagged", report_count |-> 1])
            /\ flagCall' = [flagCall EXCEPT ![userId] =
                   [@ EXCEPT !.pc = "insertFirstReport",
                             !.existingFlag = Len(flagged_content) + 1]]
    /\ UNCHANGED <<content_reports, postIdUnique, upload, contractVars>>

\* flagContent, lines 264-267: INSERT INTO content_reports for the new flag
FlagInsertFirstReport(userId) ==
    /\ flagCall[userId].pc = "insertFirstReport"
    /\ content_reports' = Append(content_reports,
           [flagged_content_id |-> flagCall[userId].existingFlag, user_id |-> userId])
    /\ flagCall' = [flagCall EXCEPT ![userId].pc = "returned"]
    /\ UNCHANGED <<flagged_content, postIdUnique, upload, contractVars>>

\* The caller has its answer and may call again
FlagDone(userId) ==
    /\ flagCall[userId].pc \in {"returned", "thrown"}
    /\ flagCall' = [flagCall EXCEPT ![userId] = IdleFlagCall]
    /\ UNCHANGED <<flagged_content, content_reports, postIdUnique, upload, contractVars>>

\* ------------------------ uploadToDecentralizedStorage (src/unnamed/part_001)
\* The outcome of each awaited call to a storage service is an input.

\* The function is entered and the content converted
UploadCall ==
    /\ upload.pc = "idle"
    /\ upload' = [IdleUpload(upload.web3StorageClient) EXCEPT !.pc = "add"]
    /\ UNCHANGED <<flagged_content, content_reports, flagCall, postIdUnique, contractVars>>

\* await ipfsClient.add(data), lines 143-144, and where control goes next
AfterIpfsAdd(ok) ==
    IF ok
    THEN IF upload.web3StorageClient
         THEN [upload EXCEPT !.ipfsAdded = TRUE, !.pc = "redundancy"]
         ELSE [upload EXCEPT !.ipfsAdded = TRUE, !.pc = "returned", !.result = "ipfsCid"]
    ELSE IF upload.web3StorageClient
         THEN [upload EXCEPT !.pc = "fallbackPut"]
         ELSE [upload EXCEPT !.pc = "thrown"]

IpfsAdd(ok) ==
    /\ upload.pc = "add"
    /\ upload' = AfterIpfsAdd(ok)
    /\ UNCHANGED <<flagged_content, content_reports, flagCall, postIdUnique, contractVars>>

\* await web3StorageClient.put of the redundancy copy, lines 147-151; its
\* rejection is caught by the catch of line 154, written for the IPFS upload
RedundancyPut(ok) ==
    /\ upload.pc = "redundancy"
    /\ upload' = IF ok
                 THEN [upload EXCEPT !.puts = @ + 1, !.pc = "returned",
                                     !.result = "ipfsCid"]
                 ELSE [upload EXCEPT !.puts = @ + 1, !.pc = "fallbackPut"]
    /\ UNCHANGED <<flagged_content, content_reports, flagCall, postIdUnique, contractVars>>

\* await web3StorageClient.put of the fallback, lines 158-163; its rejection
\* reaches the outer catch, which throws
FallbackPut(ok) ==
    /\ upload.pc = "fallbackPut"
    /\ upload' = IF ok
                 THEN [upload EXCEPT !.puts = @ + 1, !.pc = "returned",
                                     !.result = "web3Cid"]
                 ELSE [upload EXCEPT !.puts = @ + 1, !.pc = "thrown"]
    /\ UNCHANGED <<flagged_content, content_reports, flagCall, postIdUnique, contractVars>>

\* The caller has its answer and may call again
UploadDone ==
    /\ upload.pc \in {"returned", "thrown"}
    /\ upload' = IdleUpload(upload.web3StorageClient)
    /\ UNCHANGED <<flagged_content, content_reports, flagCall, postIdUnique, contractVars>>

\* --------------------------------------------------------- specifications
\* Casts explored per behaviour (a budget of the exploration, not of the code)
MaxBallots == 2

\* Post ids carried by the RemoveContent payloads given to createProposal
PayloadPosts == 0..(MaxPosts - 1)

\* Moderation life cycle: every proposal is a RemoveContent proposal, created
\* by startModerationVote or by createProposal.  Posts and proposals are
\* created by address 1, the Moderator role is granted to address 2; both
\* addresses register, flag, vote and execute.
Next ==
    \/ Tick
    \/ \E s \in Addr : registerUser(s, "user", "Individual")
    \/ \E s \in {Deployer} : createPost(s)
    \/ \E s \in Addr, p \in PostIds : flagContent(s, p)
    \/ \E s \in Addr, a \in Addr \ {Deployer} : grantRole(s, MODERATOR_ROLE, a)
    \/ \E s \in Addr, p \in PostIds : startModerationVote(s, p)
    \/ \E s \in {Deployer}, p \in PayloadPosts :
           createProposal(s, "RemoveContent", EncodeUint(p))
    \/ \E s \in Addr, i \in ProposalIds, support \in BOOLEAN, w \in Weights :
           /\ Cardinality(ballots) < MaxBallots
           /\ castModerationVote(s, i, support, w)
    \/ \E s \in Addr, p \in PostIds : executeModerationVote(s, p)
    \/ \E s \in Addr, i \in ProposalIds : executeProposal(s, i)

Spec == Init /\ [][Next]_vars

\* Governance: parameter and role proposals, beside the roles the admin
\* grants and revokes directly.  Proposals are created by address 1 and the
\* Moderator role concerns address 2; both addresses register, vote and execute.
ParamNames == {"flagThreshold", "voteDuration", "quorumPercentage", "unknownParam"}

\* newValue arguments tried for a parameter: only voteDuration is ever read
ParamValues(n) == IF n = "voteDuration" THEN 0..MaxParam ELSE {MaxParam}

NextGov ==
    \/ Tick /\ now' <= MaxGovTime
    \/ \E s \in Addr : registerUser(s, "user", "Individual")
    \/ \E s \in Addr, a \in Addr \ {Deployer} : grantRole(s, MODERATOR_ROLE, a)
    \/ \E s \in Addr, a \in Addr \ {Deployer} : revokeRole(s, MODERATOR_ROLE, a)
    \/ \E s \in {Deployer}, n \in ParamNames : \E v \in ParamValues(n) :
           createProposal(s, "UpdateParameters", EncodePair(n, v))
    \/ \E s \in {Deployer}, a \in Addr \ {Deployer} :
           createProposal(s, "GrantRole", EncodePair(MODERATOR_ROLE, a))
    \/ \E s \in {Deployer}, a \in Addr \ {Deployer} :
           createProposal(s, "RevokeRole", EncodePair(MODERATOR_ROLE, a))
    \/ \E s \in Addr, i \in ProposalIds, support \in BOOLEAN, w \in Weights :
           /\ Cardinality(ballots) < MaxBallots
           /\ castModerationVote(s, i, support, w)
    \/ \E s \in Addr, i \in ProposalIds : executeProposal(s, i)

SpecGov == Init /\ [][NextGov]_vars

\* Content: posts, likes and comments, beside the allocation of proposal ids
\* by createProposal and startModerationVote.
NextContent ==
    \/ Tick /\ now' <= MaxGovTime
    \/ \E s \in Addr : registerUser(s, "user", "Individual")
    \/ \E s \in Addr : createPost(s)
    \/ \E s \in Addr, p \in PostIds : likePost(s, p)
    \/ \E s \in Addr, p \in PostIds : unlikePost(s, p)
    \/ \E s \in Addr, p \in PostIds : addComment(s, p)
    \/ \E s \in Addr, p \in PostIds : flagContent(s, p)
    \/ \E s \in Addr, a \in Addr \ {Deployer} : grantRole(s, MODERATOR_ROLE, a)
    \/ \E s \in Addr, p \in PostIds : startModerationVote(s, p)
    \/ \E s \in {Deployer}, p \in PayloadPosts :
           createProposal(s, "RemoveContent", EncodeUint(p))
    \/ \E s \in Addr, p \in PostIds : executeModerationVote(s, p)
    \/ \E s \in Addr, i \in ProposalIds : executeProposal(s, i)

SpecContent == Init /\ [][NextContent]_vars

\* Registration on a chain whose first blocks carry block.timestamp 0
Usernames == {"alice", "bob"}

InitEpoch == now = 0 /\ InitStorage /\ InitOffChain

NextEpoch ==
    \/ Tick
    \/ \E s \in Addr, u \in Usernames, t \in UserType : registerUser(s, u, t)
    \/ \E s \in Addr, a \in Addr \ {Deployer} : grantRole(s, MODERATOR_ROLE, a)
    \/ \E s \in Addr, a \in Addr : verifyUser(s, a)
    \/ \E s \in Addr : createPost(s)

SpecEpoch == InitEpoch /\ [][NextEpoch]_vars

\* Every function of the moderation and governance engine together, with one
\* cast per behaviour and every proposal naming post 0, address 2 or one
\* parameter value.
NextAll ==
    \/ Tick /\ now' <= MaxGovTime
    \/ \E s \in Addr : registerUser(s, "user", "Individual")
    \/ \E s \in {Deployer} : createPost(s)
    \/ \E s \in Addr, p \in PostIds : flagContent(s, p)
    \/ \E s \in Addr, a \in Addr \ {Deployer} : grantRole(s, MODERATOR_ROLE, a)
    \/ \E s \in Addr, a \in Addr \ {Deployer} : revokeRole(s, MODERATOR_ROLE, a)
    \/ \E s \in Addr, a \in {Deployer} : verifyUser(s, a)
    \/ \E s \in Addr, p \in PostIds : startModerationVote(s, p)
    \/ \E s \in {Deployer}, p \in PayloadPosts :
           createProposal(s, "RemoveContent", EncodeUint(p))
    \/ \E s \in {Deployer}, n \in ParamNames :
           createProposal(s, "UpdateParameters", EncodePair(n, MaxParam))
    \/ \E s \in {Deployer}, a \in Addr \ {Deployer} :
           createProposal(s, "GrantRole", EncodePair(MODERATOR_ROLE, a))
    \/ \E s \in {Deployer}, a \in Addr \ {Deployer} :
           createProposal(s, "RevokeRole", EncodePair(MODERATOR_ROLE, a))
    \/ \E s \in Addr, i \in ProposalIds, support \in BOOLEAN, w \in Weights :
           /\ Cardinality(ballots) < MaxBallots - 1
           /\ castModerationVote(s, i, support, w)
    \/ \E s \in Addr, p \in PostIds : executeModerationVote(s, p)
    \/ \E s \in Addr, i \in ProposalIds : executeProposal(s, i)

SpecAll == Init /\ [][NextAll]_vars

\* The functions that ask for a registered caller, called by every address
NextRegistered ==
    \/ Tick /\ now' <= MaxGovTime
    \/ \E s \in Addr : registerUser(s, "user", "Individual")
    \/ \E s \in Addr : createPost(s)
    \/ \E s \in Addr, p \in PostIds : addComment(s, p)
    \/ \E s \in Addr, p \in PostIds : flagContent(s, p)
    \/ \E s \in Addr, p \in PayloadPosts :
           createProposal(s, "RemoveContent", EncodeUint(p))
    \/ \E s \in Addr, i \in ProposalIds, support \in BOOLEAN, w \in Weights :
           /\ Cardinality(ballots) < MaxBallots
           /\ castModerationVote(s, i, support, w)

SpecRegistered == Init /\ [][NextRegistered]_vars

\* Parameter proposals voted on with every voteWeight a uint256 can carry
NextAnyWeight ==
    \/ Tick /\ now' <= MaxGovTime
    \/ \E s \in Addr : registerUser(s, "user", "Individual")
    \/ \E s \in {Deployer}, n \in ParamNames :
           createProposal(s, "UpdateParameters", EncodePair(n, MaxParam))
    \/ \E s \in Addr, i \in ProposalIds, support \in BOOLEAN, w \in 0..UintMax :
           /\ Cardinality(ballots) < MaxBallots
           /\ castModerationVote(s, i, support, w)
    \/ \E s \in Addr, i \in ProposalIds : executeProposal(s, i)

SpecAnyWeight == Init /\ [][NextAnyWeight]_vars

\* The read-model and the storage upload, their calls interleaved, on every
\* schema (with and without the unique index) and environment (with and
\* without a Web3.Storage token).
InitOffChainAny ==
    /\ now = GenesisTime
    /\ InitStorage
    /\ \E unique \in BOOLEAN, client \in BOOLEAN : OffChainStart(unique, client)

NextOffChain ==
    \/ \E u \in Addr, p \in PayloadPosts : FlagSelect(u, p)
    \/ \E u \in Addr : FlagInsertReport(u)
    \/ \E u \in Addr : FlagUpdateCount(u)
    \/ \E u \in Addr : FlagInsertFlag(u)
    \/ \E u \in Addr : FlagInsertFirstReport(u)
    \/ \E u \in Addr : FlagDone(u)
    \/ UploadCall
    \/ \E ok \in BOOLEAN : IpfsAdd(ok)
    \/ \E ok \in BOOLEAN : RedundancyPut(ok)
    \/ \E ok \in BOOLEAN : FallbackPut(ok)
    \/ UploadDone

SpecOffChain == InitOffChainAny /\ [][NextOffChain]_vars

\* ------------------------------------------------------------------ claims
\* Posts and proposals that were created, and posts that have a ModerationVote
CreatedPosts == {p \in PostIds : p < postIdCounter}
CreatedProposals == {i \in ProposalIds : i < proposalIdCounter}

AllowedModerationMoves ==
    {<<"None", "Flagged">>, <<"Flagged", "UnderVote">>,
     <<"UnderVote", "Removed">>, <<"UnderVote", "None">>}

\* C1: every change of a created post's moderationStatus is one of
\* None->Flagged, Flagged->UnderVote, UnderVote->Removed, UnderVote->None.
C1_OnlyAllowedMoves ==
    [][\A p \in CreatedPosts :
          posts'[p].moderationStatus # posts[p].moderationStatus
          => <<posts[p].moderationStatus, posts'[p].moderationStatus>>
                 \in AllowedModerationMoves]_vars

\* Sum of the weights of a set of ballots
RECURSIVE SumWeights(_)
SumWeights(bs) ==
    IF bs = {} THEN 0
    ELSE LET b == CHOOSE x \in bs : TRUE
         IN b.weight + SumWeights(bs \ {b})

BallotsOn(proposalId, support) ==
    {b \in ballots : b.proposalId = proposalId /\ b.support = support}

\* C2: castModerationVote succeeds at most once per (proposalId, identity), and
\* a proposal's forVotes and againstVotes are the sums of the weights of the
\* successful casts on each side, each identity counted once.
C2_OneCastPerIdentity ==
    /\ \A b \in ballots : b.nth = 1
    /\ \A i \in ProposalIds :
          /\ proposals[i].forVotes = SumWeights(BallotsOn(i, TRUE))
          /\ proposals[i].againstVotes = SumWeights(BallotsOn(i, FALSE))

\* Two identities have voted on one proposal, on opposite sides, with weight.
C2_Witness ==
    \E i \in CreatedProposals :
        /\ <<i, 1>> \in hasVoted /\ <<i, 2>> \in hasVoted
        /\ proposals[i].forVotes > 0 /\ proposals[i].againstVotes > 0

\* C3 as stated: once executeProposal(id) (resp. executeModerationVote(postId))
\* has succeeded on a created proposal (resp. ModerationVote), every later call
\* with the same argument fails.
C3_NeverAgain ==
    /\ \A i \in ProposalIds :
          <<"executeProposal", i>> \in executedEver => ~CanExecuteProposal(i)
    /\ \A p \in PostIds :
          <<"executeModerationVote", p>> \in executedEver
              => ~CanExecuteModerationVote(p)

\* C3 as amended: once executeProposal(id) (resp. executeModerationVote(postId))
\* has succeeded, every later call with the same argument fails for as long as
\* no new proposal is stored under id (resp. no new ModerationVote is stored
\* for postId by startModerationVote).
C3_NotAgainUntilStoredAnew ==
    /\ \A i \in ProposalIds :
          <<"executeProposal", i>> \in executedSince => ~CanExecuteProposal(i)
    /\ \A p \in PostIds :
          <<"executeModerationVote", p>> \in executedSince
              => ~CanExecuteModerationVote(p)

\* Both execute functions have succeeded on records created by the program,
\* after votes were cast, and the deadline is still passed.
C3_Witness ==
    \E i \in CreatedProposals, p \in voteStarted :
        /\ <<"executeProposal", i>> \in executedSince
        /\ <<"executeModerationVote", p>> \in executedSince
        /\ moderationVotes[p].proposalId # i
        /\ now >= proposals[i].endTime
        /\ now >= moderationVotes[p].endTime
        /\ proposals[i].forVotes + proposals[i].againstVotes > 0

Resolved(i) == proposals[i].status \in {"Executed", "Rejected"}

\* The ModerationVote of post p was created by startModerationVote for proposal i
LinkedVote(p, i) == p \in voteStarted /\ moderationVotes[p].proposalId = i

\* C4: a created proposal is resolved at most once across both entry points:
\* once it is Executed or Rejected, neither executeProposal(i) nor
\* executeModerationVote(postId of its ModerationVote) succeeds for it.
C4_ResolvedAtMostOnce ==
    [][\A i \in CreatedProposals :
          Resolved(i) =>
              /\ ~(\E s \in Addr : executeProposal(s, i))
              /\ ~(\E s \in Addr, p \in PostIds :
                       LinkedVote(p, i) /\ executeModerationVote(s, p))]_vars

\* C5: executeModerationVote(postId) fails, changing nothing, whenever no
\* ModerationVote was created for postId by startModerationVote.
C5_NoVoteNoExecution ==
    [][\A p \in PostIds \ voteStarted :
          ~(\E s \in Addr : executeModerationVote(s, p))]_vars

\* C6: executeProposal(proposalId) and castModerationVote(proposalId, ...) fail,
\* changing nothing, whenever no proposal with that id was created.
C6_NoProposalNoCall ==
    [][\A i \in ProposalIds \ CreatedProposals :
          /\ ~(\E s \in Addr : executeProposal(s, i))
          /\ ~(\E s \in Addr, support \in BOOLEAN, w \in Weights :
                   castModerationVote(s, i, support, w))]_vars

\* C7: no proposal is resolved before its voting window closes: a created
\* proposal that is Executed or Rejected has now >= endTime, and a
\* ModerationVote with executed = true has now >= its endTime.
C7_ResolvedAfterDeadline ==
    /\ \A i \in CreatedProposals : Resolved(i) => now >= proposals[i].endTime
    /\ \A p \in PostIds :
          moderationVotes[p].executed => now >= moderationVotes[p].endTime

\* C8: a successful executeModerationVote(postId) sets the post to Removed and
\* the linked proposal to Executed exactly when the ModerationVote's
\* forRemovalVotes + againstRemovalVotes > 0 and forRemovalVotes >
\* againstRemovalVotes; otherwise the post to None and the proposal to Rejected.
C8_OutcomeFromRemovalTally ==
    [][\A s \in Addr, p \in voteStarted :
          executeModerationVote(s, p) =>
              LET vote == moderationVotes[p]
                  removal == /\ vote.forRemovalVotes + vote.againstRemovalVotes > 0
                             /\ vote.forRemovalVotes > vote.againstRemovalVotes
              IN IF removal
                 THEN /\ posts'[p].moderationStatus = "Removed"
                      /\ proposals'[vote.proposalId].status = "Executed"
                 ELSE /\ posts'[p].moderationStatus = "None"
                      /\ proposals'[vote.proposalId].status = "Rejected"]_vars

\* C9: a successful executeProposal(i) sets status to Executed exactly when
\* forVotes + againstVotes > 0 and forVotes > againstVotes; on a tie or with
\* zero total weight it sets status to Rejected and changes no role and no
\* parameter.
C9_StrictMajorityOrRejected ==
    [][\A s \in Addr, i \in ProposalIds :
          executeProposal(s, i) =>
              LET forVotes == proposals[i].forVotes
                  againstVotes == proposals[i].againstVotes
              IN IF forVotes + againstVotes > 0 /\ forVotes > againstVotes
                 THEN proposals'[i].status = "Executed"
                 ELSE /\ proposals'[i].status = "Rejected"
                      /\ roles' = roles
                      /\ params' = params]_vars

\* A GrantRole proposal with equal nonzero weight on both sides was executed:
\* it is Rejected and the role was not granted.
C9_Witness ==
    \E i \in CreatedProposals :
        /\ <<"executeProposal", i>> \in executedSince
        /\ proposals[i].proposalType = "GrantRole"
        /\ proposals[i].forVotes = proposals[i].againstVotes
        /\ proposals[i].forVotes > 0
        /\ proposals[i].status = "Rejected"
        /\ ~hasRole(DecodeFirst(proposals[i].data), DecodeSecond(proposals[i].data))

\* C10: a successful executeProposal(i) on the proposal linked to post p's
\* ModerationVote leaves p Removed if the proposal passed and None if it was
\* rejected.
C10_ExecuteProposalMovesPost ==
    [][\A s \in Addr, i \in CreatedProposals, p \in PostIds :
          (LinkedVote(p, i) /\ executeProposal(s, i)) =>
              posts'[p].moderationStatus =
                  (IF proposals'[i].status = "Executed" THEN "Removed" ELSE "None")]_vars

\* C11: for every moderation vote created by startModerationVote, the removal
\* tallies of the vote equal the tallies of its linked proposal, also when
\* other RemoveContent proposals naming the same post are created and voted on.
C11_TalliesInSync ==
    \A p \in voteStarted :
        LET vote == moderationVotes[p]
            proposal == proposals[vote.proposalId]
        IN /\ vote.forRemovalVotes = proposal.forVotes
           /\ vote.againstRemovalVotes = proposal.againstVotes

\* C13: once registerUser has succeeded for an identity, no later registerUser
\* call by that identity succeeds, at any block time, time 0 included.
C13_RegisterOnce ==
    [][\A s \in registered : \A u \in Usernames \cup {"user"}, t \in UserType :
           ~registerUser(s, u, t)]_vars

\* The places of the stored comments: <<postId, index in postComments[postId]>>
CommentSlots == {<<p, k>> \in PostIds \X (1..MaxComments) : k <= Len(postComments[p])}

CommentAt(slot) == postComments[slot[1]][slot[2]]

\* The ids allocated so far are exactly 0 .. counter-1, each carried by one record
AllocatedInOrder ==
    /\ \A i \in PostIds : PostExists(i) <=> i < postIdCounter
    /\ \A i \in CreatedPosts : posts[i].id = i
    /\ \A i \in ProposalIds : (proposals[i].proposer # ZeroAddr) <=> i < proposalIdCounter
    /\ \A i \in CreatedProposals : proposals[i].id = i
    /\ {CommentAt(c).id : c \in CommentSlots} = 0..(commentIdCounter - 1)
    /\ Cardinality(CommentSlots) = commentIdCounter
    /\ \A c \in CommentSlots : CommentAt(c).postId = c[1]

\* A step allocates at most the next id of each counter, to a fresh record
AllocatesNext ==
    /\ postIdCounter' \in {postIdCounter, postIdCounter + 1}
    /\ commentIdCounter' \in {commentIdCounter, commentIdCounter + 1}
    /\ proposalIdCounter' \in {proposalIdCounter, proposalIdCounter + 1}
    /\ postIdCounter' # postIdCounter =>
           /\ ~PostExists(postIdCounter)
           /\ posts'[postIdCounter].id = postIdCounter
    /\ proposalIdCounter' # proposalIdCounter =>
           /\ proposals[proposalIdCounter].proposer = ZeroAddr
           /\ proposals'[proposalIdCounter].id = proposalIdCounter
    /\ \A s \in Addr, p \in PostIds :
           startModerationVote(s, p) =>
               /\ moderationVotes'[p].proposalId = proposalIdCounter
               /\ proposalIdCounter' = proposalIdCounter + 1
    /\ \A s \in Addr, p \in PayloadPosts :
           createProposal(s, "RemoveContent", EncodeUint(p)) =>
               /\ proposals'[proposalIdCounter].proposalType = "RemoveContent"
               /\ proposalIdCounter' = proposalIdCounter + 1

\* The creation fields of the records stored so far are left as they are
KeepsAllocated ==
    /\ \A i \in CreatedPosts :
           /\ posts'[i].id = posts[i].id
           /\ posts'[i].author = posts[i].author
    /\ \A i \in CreatedProposals :
           /\ proposals'[i].id = proposals[i].id
           /\ proposals'[i].proposer = proposals[i].proposer
           /\ proposals'[i].proposalType = proposals[i].proposalType
           /\ proposals'[i].data = proposals[i].data
           /\ proposals'[i].startTime = proposals[i].startTime
           /\ proposals'[i].endTime = proposals[i].endTime
    /\ \A p \in PostIds :
           /\ Len(postComments'[p]) >= Len(postComments[p])
           /\ SubSeq(postComments'[p], 1, Len(postComments[p])) = postComments[p]

Likers(p) == {a \in Addr : <<p, a>> \in postLikes}

\* C15: the likes count of every post is the number of identities that like it;
\* a like is added only for an identity that had none and removed only for an
\* identity that had one, each changing the count by exactly one, so that a
\* like followed by an unlike restores count and relation.
C15_LikesCountLikers ==
    /\ [](\A p \in PostIds : posts[p].likes = Cardinality(Likers(p)))
    /\ [][\A s \in Addr, p \in PostIds :
             /\ likePost(s, p) =>
                    /\ s \notin Likers(p)
                    /\ postLikes' = postLikes \cup {<<p, s>>}
                    /\ posts'[p].likes = posts[p].likes + 1
             /\ unlikePost(s, p) =>
                    /\ s \in Likers(p)
                    /\ postLikes' = postLikes \ {<<p, s>>}
                    /\ posts'[p].likes = posts[p].likes - 1
             /\ posts'[p].likes # posts[p].likes =>
                    \E a \in Addr : likePost(a, p) \/ unlikePost(a, p)]_vars

\* Every identity likes a post
C15_Witness ==
    \E p \in CreatedPosts : Likers(p) = Addr /\ posts[p].likes = NumAddr

\* The role and the account named by the payload of a role proposal
RoleOf(i) == DecodeFirst(proposals[i].data)
AccountOf(i) == DecodeSecond(proposals[i].data)

\* Proposal i holds nonzero weight and strictly more weight for than against
Passing(i) ==
    /\ proposals[i].forVotes + proposals[i].againstVotes > 0
    /\ proposals[i].forVotes > proposals[i].againstVotes

\* C16: executing a passing GrantRole proposal leaves its account with the role
\* and the proposal Executed; executing a passing RevokeRole proposal leaves the
\* account without the role and the proposal Executed; right after, the
\* proposal cannot be executed again.
C16_RoleProposalTakesEffect ==
    [][\A s \in Addr, i \in CreatedProposals :
           (executeProposal(s, i) /\ Passing(i)) =>
               /\ proposals[i].proposalType = "GrantRole" =>
                      /\ <<RoleOf(i), AccountOf(i)>> \in roles'
                      /\ proposals'[i].status = "Executed"
               /\ proposals[i].proposalType = "RevokeRole" =>
                      /\ <<RoleOf(i), AccountOf(i)>> \notin roles'
                      /\ proposals'[i].status = "Executed"
               /\ ~(CanExecuteProposal(i))']_vars

\* A GrantRole and a RevokeRole proposal were both executed with effect
C16_Witness ==
    \E i, j \in CreatedProposals :
        /\ proposals[i].proposalType = "GrantRole"
        /\ proposals[i].status = "Executed"
        /\ proposals[j].proposalType = "RevokeRole"
        /\ proposals[j].status = "Executed"
        /\ <<"executeProposal", i>> \in executedSince
        /\ <<"executeProposal", j>> \in executedSince

\* A grant or revoke called by a holder of the role's admin role
AdminChangesRoles ==
    \E s \in Addr, r \in {MODERATOR_ROLE, ADMIN_ROLE, DEFAULT_ADMIN_ROLE}, a \in Addr :
        /\ <<DEFAULT_ADMIN_ROLE, s>> \in roles
        /\ \/ roles' = roles \cup {<<r, a>>}
           \/ roles' = roles \ {<<r, a>>}
        /\ grantRole(s, r, a) \/ revokeRole(s, r, a)

\* The execution of a passing proposal of one of the given types
PassingExecuted(types) ==
    \E s \in Addr, i \in ProposalIds :
        /\ proposals[i].proposalType \in types
        /\ Passing(i)
        /\ now >= proposals[i].endTime
        /\ executeProposal(s, i)

\* C17: the role relation changes only in a grant or revoke by an admin and in
\* the execution of a passing GrantRole or RevokeRole proposal; every other
\* step leaves every (role, identity) assignment as it was.
C17_RolesChangeOnlyByAdminOrProposal ==
    [][roles' # roles =>
           AdminChangesRoles \/ PassingExecuted({"GrantRole", "RevokeRole"})]_vars

\* The Moderator role of address 2 came from an executed GrantRole proposal
C17_Witness ==
    \E i \in CreatedProposals :
        /\ proposals[i].proposalType = "GrantRole"
        /\ proposals[i].status = "Executed"
        /\ <<RoleOf(i), AccountOf(i)>> \in roles
        /\ \E j \in CreatedProposals : proposals[j].status = "Rejected"

\* The parameter names that executeProposal knows
KnownParams == {"flagThreshold", "voteDuration", "quorumPercentage"}

\* C18: flagThreshold, voteDuration and quorumPercentage change only in the
\* execution of a passing UpdateParameters proposal, which sets the parameter
\* it names to its value and leaves the other two; every other step, the
\* execution of a rejected UpdateParameters proposal included, leaves all three.
C18_ParamsChangeOnlyByProposal ==
    [][/\ params' # params => PassingExecuted({"UpdateParameters"})
       /\ \A s \in Addr, i \in CreatedProposals :
              (executeProposal(s, i) /\ proposals[i].proposalType = "UpdateParameters") =>
                  IF Passing(i) /\ DecodeFirst(proposals[i].data) \in KnownParams
                  THEN params' = [params EXCEPT ![DecodeFirst(proposals[i].data)] =
                                                   DecodeSecond(proposals[i].data)]
                  ELSE params' = params]_vars

\* voteDuration was set by a proposal, the other two parameters are as deployed
C18_Witness ==
    /\ params.voteDuration = MaxParam
    /\ params.flagThreshold = InitFlagThreshold
    /\ params.quorumPercentage = InitQuorumPercentage
    /\ \E i \in CreatedProposals :
           /\ proposals[i].proposalType = "UpdateParameters"
           /\ proposals[i].status = "Executed"

\* C19: startModerationVote succeeds only for a Moderator and a Flagged post;
\* it stores an Active RemoveContent proposal for the post under the next
\* proposal id, with zero tallies and endTime = now + voteDuration, stores the
\* post's ModerationVote with that proposal id and endTime, not executed and
\* with zero tallies, and sets the post to UnderVote.
C19_StartModerationVote ==
    /\ [](\A s \in Addr, p \in PostIds :
             (ENABLED startModerationVote(s, p)) =>
                 /\ <<MODERATOR_ROLE, s>> \in roles
                 /\ p \in CreatedPosts
                 /\ posts[p].moderationStatus = "Flagged")
    /\ [][\A s \in Addr, p \in PostIds :
             startModerationVote(s, p) =>
                 LET i == proposalIdCounter
                     proposal == proposals'[i]
                     vote == moderationVotes'[p]
                 IN /\ <<MODERATOR_ROLE, proposal.proposer>> \in roles
                    /\ posts[p].moderationStatus = "Flagged"
                    /\ proposalIdCounter' = i + 1
                    /\ proposal.id = i
                    /\ proposal.proposalType = "RemoveContent"
                    /\ proposal.data = EncodeUint(p)
                    /\ proposal.status = "Active"
                    /\ proposal.forVotes = 0 /\ proposal.againstVotes = 0
                    /\ proposal.endTime = now + params.voteDuration
                    /\ vote.proposalId = i /\ vote.postId = p
                    /\ vote.endTime = proposal.endTime
                    /\ vote.executed = FALSE
                    /\ vote.forRemovalVotes = 0 /\ vote.againstRemovalVotes = 0
                    /\ posts'[p].moderationStatus = "UnderVote"]_vars

\* A vote was started for a post whose earlier vote had gathered weight
C19_Witness ==
    \E p \in voteStarted :
        /\ posts[p].moderationStatus = "UnderVote"
        /\ moderationVotes[p].forRemovalVotes = 0
        /\ <<"executeModerationVote", p>> \in executedEver
        /\ <<"executeModerationVote", p>> \notin executedSince

\* C20: flagContent by a registered caller moves an existing post from None to
\* Flagged on that single flag, whatever flagThreshold is; it acts on no post
\* that is Flagged, UnderVote or Removed or does not exist, and for no
\* unregistered caller.
C20_SingleFlagFlags ==
    /\ [](\A s \in Addr, p \in PostIds :
             (ENABLED flagContent(s, p)) <=>
                 /\ registrationTime[s] > 0
                 /\ p \in CreatedPosts
                 /\ posts[p].moderationStatus = "None")
    /\ [][\A s \in Addr, p \in PostIds :
             flagContent(s, p) =>
                 /\ posts[p].moderationStatus = "None"
                 /\ posts'[p].moderationStatus = "Flagged"
                 /\ \A q \in PostIds \ {p} : posts'[q] = posts[q]
                 /\ params' = params]_vars

\* A post is Flagged while flagThreshold asks for more than one flag
C20_Witness ==
    \E p \in CreatedPosts :
        /\ posts[p].moderationStatus = "Flagged"
        /\ params.flagThreshold > 1

C22_TerminalIsFinal ==
    /\ [](\A i \in CreatedProposals :
             proposals[i].status \in {"Active", "Executed", "Rejected"})
    /\ [][\A i \in CreatedProposals :
             proposals[i].status \in {"Executed", "Rejected"} =>
                 /\ proposals'[i].status = proposals[i].status
                 /\ proposals'[i].forVotes = proposals[i].forVotes
                 /\ proposals'[i].againstVotes = proposals[i].againstVotes
                 /\ proposals'[i].proposalType = proposals[i].proposalType
                 /\ proposals'[i].data = proposals[i].data
                 /\ proposals'[i].endTime = proposals[i].endTime]_vars

\* A resolved proposal's post is under a second vote, with a second proposal
C22_Witness ==
    \E i, j \in CreatedProposals :
        /\ i # j
        /\ proposals[i].status \in {"Executed", "Rejected"}
        /\ proposals[j].status = "Active"
        /\ proposals[i].data = proposals[j].data
        /\ \E p \in voteStarted :
               /\ moderationVotes[p].proposalId = j
               /\ <<"executeModerationVote", p>> \in executedEver

\* The two tallies of proposal i
Tallies(i) == <<proposals[i].forVotes, proposals[i].againstVotes>>

C24_CommentsCountList ==
    /\ [](\A p \in PostIds :
             /\ posts[p].comments = Len(postComments[p])
             /\ \A s \in Addr :
                    (ENABLED addComment(s, p)) =>
                        (p \in CreatedPosts /\ registrationTime[s] > 0))
    /\ [][\A p \in PostIds :
             /\ Len(postComments'[p]) \in {Len(postComments[p]), Len(postComments[p]) + 1}
             /\ SubSeq(postComments'[p], 1, Len(postComments[p])) = postComments[p]
             /\ \A s \in Addr :
                    addComment(s, p) =>
                        /\ postComments'[p] =
                               Append(postComments[p], postComments'[p][Len(postComments'[p])])
                        /\ postComments'[p][Len(postComments'[p])].author = s
                        /\ registrationTime[s] > 0
                        /\ \A q \in PostIds \ {p} : postComments'[q] = postComments[q]
             /\ postComments'[p] # postComments[p] => \E s \in Addr : addComment(s, p)]_vars

\* A post carries comments of both identities
C24_Witness ==
    \E p \in CreatedPosts :
        /\ Len(postComments[p]) = MaxComments
        /\ postComments[p][1].author # postComments[p][MaxComments].author

\* C25: executing a passing UpdateParameters proposal whose name is none of
\* the three parameters succeeds, sets the proposal Executed and leaves the
\* three parameters as they were.
C25_UnknownNameIgnored ==
    /\ [](\A s \in Addr, i \in CreatedProposals :
             (/\ proposals[i].proposalType = "UpdateParameters"
              /\ DecodeFirst(proposals[i].data) \notin KnownParams
              /\ Passing(i)
              /\ proposals[i].status = "Active"
              /\ now >= proposals[i].endTime) => ENABLED executeProposal(s, i))
    /\ [][\A s \in Addr, i \in CreatedProposals :
             (/\ executeProposal(s, i)
              /\ proposals[i].proposalType = "UpdateParameters"
              /\ DecodeFirst(proposals[i].data) \notin KnownParams
              /\ Passing(i)) =>
                 /\ proposals'[i].status = "Executed"
                 /\ params' = params
                 /\ roles' = roles]_vars

\* C26: for every created proposal that is Active with now >= endTime,
\* executeProposal is enabled for every caller.
C26_ExecutionAvailable ==
    \A s \in Addr, i \in CreatedProposals :
        (proposals[i].status = "Active" /\ now >= proposals[i].endTime) =>
            ENABLED executeProposal(s, i)

\* C27: a created post is UnderVote exactly when it has a ModerationVote that
\* is not executed, and then the vote's proposal is an Active RemoveContent
\* proposal carrying the post's id; a Removed post's vote has an Executed
\* proposal.
C27_UnderVoteHasOpenVote ==
    \A p \in CreatedPosts :
        LET vote == moderationVotes[p]
            proposal == proposals[vote.proposalId]
        IN /\ posts[p].moderationStatus = "UnderVote" <=>
                  (p \in voteStarted /\ ~vote.executed)
           /\ posts[p].moderationStatus = "UnderVote" =>
                  /\ proposal.proposalType = "RemoveContent"
                  /\ proposal.data = EncodeUint(p)
                  /\ proposal.status = "Active"
           /\ posts[p].moderationStatus = "Removed" => proposal.status = "Executed"

\* C28: a created post that is Removed stays Removed, and flagContent,
\* startModerationVote and executeModerationVote all fail for it; a post that a
\* rejected vote returned to None can be flagged and put under vote again, and
\* that startModerationVote stores a new proposal and a new ModerationVote with
\* zero tallies, not executed, leaving the earlier proposal as it was.
C28_RemovedStays_NoneReenters ==
    /\ [](\A s \in Addr, p \in CreatedPosts :
             posts[p].moderationStatus = "Removed" =>
                 /\ ~ENABLED flagContent(s, p)
                 /\ ~ENABLED startModerationVote(s, p)
                 /\ ~ENABLED executeModerationVote(s, p))
    /\ [][\A p \in CreatedPosts :
             /\ posts[p].moderationStatus = "Removed" =>
                    posts'[p].moderationStatus = "Removed"
             /\ \A s \in Addr :
                    (startModerationVote(s, p) /\ p \in voteStarted) =>
                        LET earlier == moderationVotes[p].proposalId
                            vote == moderationVotes'[p]
                        IN /\ vote.proposalId # earlier
                           /\ proposals'[earlier] = proposals[earlier]
                           /\ proposals'[vote.proposalId].status = "Active"
                           /\ proposals'[vote.proposalId].forVotes = 0
                           /\ proposals'[vote.proposalId].againstVotes = 0
                           /\ vote.forRemovalVotes = 0
                           /\ vote.againstRemovalVotes = 0
                           /\ ~vote.executed]_vars

\* A post whose first vote was rejected is under a second vote
C28_Witness ==
    \E p \in voteStarted :
        /\ posts[p].moderationStatus = "UnderVote"
        /\ moderationVotes[p].proposalId > 0
        /\ ~moderationVotes[p].executed
        /\ \E i \in CreatedProposals :
               /\ i < moderationVotes[p].proposalId
               /\ proposals[i].status = "Rejected"
               /\ proposals[i].proposer # Deployer

\* C29: a proposal is stored with startTime = now and endTime = now +
\* voteDuration as it is then; a started ModerationVote has the endTime of its
\* proposal; and no later step, a change of voteDuration included, changes the
\* startTime or endTime of a created proposal or the endTime of a started vote
\* other than by starting a new vote.
C29_DeadlineFixedAtCreation ==
    /\ [](\A p \in voteStarted :
             moderationVotes[p].endTime = proposals[moderationVotes[p].proposalId].endTime)
    /\ [][/\ proposalIdCounter' # proposalIdCounter =>
              /\ proposals'[proposalIdCounter].startTime = now
              /\ proposals'[proposalIdCounter].endTime = now + params.voteDuration
          /\ \A i \in CreatedProposals :
                 /\ proposals'[i].startTime = proposals[i].startTime
                 /\ proposals'[i].endTime = proposals[i].endTime
          /\ \A p \in voteStarted :
                 moderationVotes'[p].endTime # moderationVotes[p].endTime =>
                     /\ \E s \in Addr : startModerationVote(s, p)
                     /\ moderationVotes'[p].endTime = now + params.voteDuration]_vars

\* Two proposals stored at the same time, before and after voteDuration changed
C29_Witness ==
    \E i, j \in CreatedProposals :
        /\ params.voteDuration # InitVoteDuration
        /\ proposals[i].status = "Executed"
        /\ proposals[i].endTime = proposals[i].startTime + InitVoteDuration
        /\ proposals[j].endTime = proposals[j].startTime + params.voteDuration
        /\ \E p \in voteStarted : moderationVotes[p].proposalId = j

\* C30: createPost, addComment, flagContent, createProposal and
\* castModerationVote act for no caller without a profile, so every post
\* author, comment author, proposer of a createProposal proposal and every
\* identity that has voted is registered.
C30_OnlyRegisteredAct ==
    /\ [](/\ \A p \in CreatedPosts : registrationTime[posts[p].author] > 0
          /\ \A c \in CommentSlots : registrationTime[CommentAt(c).author] > 0
          /\ \A v \in hasVoted : registrationTime[v[2]] > 0
          /\ \A s \in Addr :
                 registrationTime[s] = 0 =>
                     /\ ~ENABLED createPost(s)
                     /\ \A p \in PostIds :
                            /\ ~ENABLED addComment(s, p)
                            /\ ~ENABLED flagContent(s, p)
                            /\ ~ENABLED createProposal(s, "RemoveContent", EncodeUint(p))
                     /\ \A i \in ProposalIds, support \in BOOLEAN, w \in Weights :
                            ~ENABLED castModerationVote(s, i, support, w))
    /\ [][(proposalIdCounter' # proposalIdCounter /\ moderationVotes' = moderationVotes) =>
              registrationTime[proposals'[proposalIdCounter].proposer] > 0]_vars

\* Both identities have a post or comment, a proposal and a cast between them
C30_Witness ==
    /\ \E p \in CreatedPosts, c \in CommentSlots : CommentAt(c).author # posts[p].author
    /\ \E i \in CreatedProposals, v \in hasVoted : v[2] # proposals[i].proposer
    /\ \E p \in CreatedPosts : posts[p].moderationStatus = "Flagged"

\* No flagContent call of the read-model is between two of its queries
NoFlagCallInFlight == \A u \in Addr : flagCall[u].pc \in {"idle", "returned", "thrown"}

\* The content_reports rows that reference flagged_content row k
ReportsOf(k) == {r \in 1..Len(content_reports) : content_reports[r].flagged_content_id = k}

\* C31: whatever the interleaving of the queries of concurrent flagContent
\* calls, once no call is in flight every post has at most one flagged_content
\* row and every row's report_count is the number of content_reports rows that
\* reference it.
C31_OneFlagRowPerPost_CountMatches ==
    NoFlagCallInFlight =>
        /\ \A p \in PayloadPosts : Cardinality(RowsOfPost(p)) <= 1
        /\ \A k \in 1..Len(flagged_content) :
               flagged_content[k].report_count = Cardinality(ReportsOf(k))

\* C32: when ipfsClient.add succeeded the call returns the IPFS CID and makes
\* no fallback upload, whatever the redundancy copy did; the call throws only
\* when the IPFS add failed and Web3.Storage is absent or its upload failed too.
C32_IpfsFirst_FallbackOnlyOnIpfsFailure ==
    /\ (upload.pc \in {"returned", "thrown", "fallbackPut"} /\ upload.ipfsAdded) =>
           /\ upload.pc = "returned"
           /\ upload.result = "ipfsCid"
    /\ upload.pc = "thrown" =>
           /\ ~upload.ipfsAdded
           /\ ~upload.web3StorageClient \/ upload.puts > 0
    /\ (upload.pc = "returned" /\ ~upload.ipfsAdded) => upload.result = "web3Cid"
====
